---- MODULE Spec2Model ----
(***************************************************************************)
(* MultiDataManager: the byte-bounded batching of                          *)
(* OpensearchHandler.batch_upload, the retry decorator                     *)
(* retry_on_lock_error with SQLHelper.execute_query, the thread-pool       *)
(* fan-out of FileHandler.export_all and S3Handler.upload_all_to_s3, the   *)
(* pruning conversion CustomEncoder.convert_to_dict, and the singleton     *)
(* construction of OpensearchHandler.                                      *)
(*                                                                         *)
(* SpecBatch  : one call of OpensearchHandler.batch_upload                 *)
(* SpecRetry  : one call of a function decorated with retry_on_lock_error  *)
(*              (an arbitrary function, or SQLHelper.execute_query)        *)
(* SpecRetryFair: SpecRetry when every invocation and sleep terminates     *)
(* SpecFanout : one call of export_all or upload_all_to_s3                 *)
(* SpecEncoder: convert_to_dict applied to a value, and to its result      *)
(* SpecSingleton: threads constructing OpensearchHandler                   *)
(* SpecCalls  : several calls, by several threads, of one function         *)
(*              decorated with retry_on_lock_error                         *)
(***************************************************************************)
EXTENDS Integers, Sequences, FiniteSets, TLC

\* ---------------------------------------------------------------- bounds
MaxDocs == 3          \* documents per batch_upload call
MaxSizeSteps == 5     \* a document is 1..MaxSizeSteps quarters of a MiB
MaxSizeMb == 1        \* max_size_mb is 0..MaxSizeMb
MaxRetries == 3       \* retries of a decorated function is 0..MaxRetries
MaxDelay == 2         \* delay is 0..MaxDelay seconds
MaxParams == 3        \* len(params) is 0..MaxParams
MaxBatchSize == 2     \* execute_query's batch_size is 0..MaxBatchSize
MaxUnits == 3         \* items per fan-out call
MaxWorkers == 2       \* MAX_WORKERS is 1..MaxWorkers
MaxNodes == 4         \* nodes (scalars and containers) of a value given to convert_to_dict
MaxThreads == 2       \* threads constructing OpensearchHandler, or calling one decorated function
MaxCalls == 3         \* calls of one decorated function, over all threads

\* ---------------------------------------------------------------- state
VARIABLES
    \* --- OpensearchHandler.batch_upload: arguments
    documents,       \* the items of the dict, in insertion order
    is_dict,         \* isinstance(documents, dict)
    max_size_mb,
    recreate_index,
    index_exists,    \* es.indices.exists(index) at the time of the call
    \* --- OpensearchHandler.batch_upload: locals
    bpc,             \* position in batch_upload
    doc_i,           \* position of the for loop in documents.items()
    batch,           \* ids (positions) of the documents of the running batch
    batch_size,
    total_success,
    total_failed,
    \* --- the search sink, as seen by the call
    bulk_calls,      \* the batches handed to helpers.bulk, in call order
    bulk_totals,     \* batch_size at each of these calls
    index_ops,       \* es.indices.delete / es.indices.create calls
    bexc,            \* the exception that left batch_upload, or "none"
    \* --- retry_on_lock_error: the decorator's arguments and the wrapped function
    func,            \* "func" (any decorated function) or "execute_query"
    retries,
    delay,
    plan,            \* how func's 1st, 2nd, ... invocation will end ("func" only)
    \* --- retry_on_lock_error.wrapper: one call
    rpc,             \* position in wrapper
    attempt,         \* the loop variable of range(retries)
    caught,          \* the exception the try block raised in this attempt
    result,          \* what wrapper returned
    wexc,            \* the exception wrapper raised
    calls,           \* invocations of func so far
    sleeps,          \* time.sleep calls so far
    slept,           \* seconds slept so far
    outcomes,        \* how each invocation of func ended, in order
    \* --- SQLHelper.execute_query: arguments and the sink's answers
    db_type,
    params,          \* len(params); 0 is None or empty
    execute_many,
    eq_batch_size,
    has_description, \* cursor.description is truthy after the statement
    \* --- SQLHelper.execute_query: one invocation
    qpc,             \* position in execute_query
    chunk_i,         \* the loop variable of range(0, len(params), batch_size)
    chunks,          \* the slices [lo, hi) of params given to executemany
    rows,
    sink_err,        \* the exception the except clause caught, or NoError
    sink_log,        \* what the connection and the caller saw, in order
    \* --- FileHandler.export_all / S3Handler.upload_all_to_s3: arguments
    handler,         \* which of the two fan-out calls
    items,           \* targeted_files / s3_files: the kind of each item
    max_workers,     \* MAX_WORKERS
    \* --- one fan-out call
    fpc,             \* position of the calling thread
    next_item,       \* position of the submitting loop
    unit,            \* per item: "none" (no unit), "queued", "running", "ok", "err"
    yielded,         \* the units as_completed has yielded, in order
    error_log,       \* the units whose error logger.error reported, in order
    fexc,            \* the exception that leaves the call
    undone_at_raise, \* the units still queued or running when it was raised
    submitted,       \* the items given to executor.submit, in order
    \* --- CustomEncoder.convert_to_dict
    epc,             \* "idle", "input", "converted", "reconverted"
    given,           \* the value given to convert_to_dict
    once,            \* convert_to_dict(given)
    twice,           \* convert_to_dict(convert_to_dict(given))
    \* --- OpensearchHandler: class attributes and the instance
    instance,        \* cls._instance: 0 is None, else the number of the allocation
    lock,            \* cls._lock: 0 is free, else the thread holding it
    initialized,     \* _initialized of the instance: "unset" (no such attribute), "false", "true"
    fields,          \* host, index, role_arn, region of the instance: 0 is unset, else an argument tuple
    es,              \* self.es: 0 is unset, else the number of the client
    \* --- the threads constructing OpensearchHandler
    tpc,             \* position of each thread in __new__ / __init__
    args,            \* the argument tuple each thread passes
    ret,             \* what __new__ returned to each thread (0: not yet)
    allocs,          \* how many objects super().__new__ has allocated
    clients,         \* how many OpenSearch clients have been created
    entered,         \* the threads that went past the _initialized test, in order
    lockers,         \* the threads that took cls._lock, in order
    \* --- one function decorated with retry_on_lock_error, called by several threads
    closure,         \* retries and delay, the cells of the decorator's closure
    frames,          \* per thread: its call of wrapper (pc, attempt) and what the call did
    started          \* how many calls of wrapper were started

varsBatch == <<documents, is_dict, max_size_mb, recreate_index, index_exists,
               bpc, doc_i, batch, batch_size, total_success, total_failed,
               bulk_calls, bulk_totals, index_ops, bexc>>

varsWrapper == <<func, retries, delay, plan, rpc, attempt, caught, result, wexc,
                 calls, sleeps, slept, outcomes>>

varsQuery == <<db_type, params, execute_many, eq_batch_size, has_description,
               qpc, chunk_i, chunks, rows, sink_err, sink_log>>

varsRetry == <<varsWrapper, varsQuery>>

varsFanout == <<handler, items, max_workers, fpc, next_item, unit, yielded,
                error_log, fexc, undone_at_raise, submitted>>

varsEncoder == <<epc, given, once, twice>>

varsSingleton == <<instance, lock, initialized, fields, es, tpc, args, ret,
                   allocs, clients, entered, lockers>>

varsCalls == <<closure, frames, started>>

varsNotBatch == <<varsRetry, varsFanout, varsEncoder, varsSingleton, varsCalls>>

varsNotRetry == <<varsBatch, varsFanout, varsEncoder, varsSingleton, varsCalls>>

varsNotFanout == <<varsBatch, varsRetry, varsEncoder, varsSingleton, varsCalls>>

varsNotEncoder == <<varsBatch, varsRetry, varsFanout, varsSingleton, varsCalls>>

varsNotSingleton == <<varsBatch, varsRetry, varsFanout, varsEncoder, varsCalls>>

varsNotCalls == <<varsBatch, varsRetry, varsFanout, varsEncoder, varsSingleton>>

vars == <<varsBatch, varsRetry, varsFanout, varsEncoder, varsSingleton, varsCalls>>

\* ------------------------------------- sequences, used by the properties
RECURSIVE SumSeq(_)
SumSeq(s) == IF s = <<>> THEN 0 ELSE Head(s) + SumSeq(Tail(s))

RECURSIVE Flatten(_)
Flatten(ss) == IF ss = <<>> THEN <<>> ELSE Head(ss) \o Flatten(Tail(ss))

Range(s) == {s[k] : k \in DOMAIN s}

\* exceptions, and how an invocation ended
Exc(cls, errno, msg) == [cls |-> cls, errno |-> errno, msg |-> msg]
NoError == Exc("none", "none", "")
MySQLError(errno) == Exc("mysql.connector.Error", errno, "")
OtherError == Exc("Exception", "none", "")
DatabaseError(msg) == Exc("DatabaseError", "none", msg)
Returned(v) == Exc("return", "none", v)

\* a component that is not running
IdleBatch ==
    /\ documents = <<>> /\ is_dict = TRUE /\ max_size_mb = 0
    /\ recreate_index = FALSE /\ index_exists = FALSE
    /\ bpc = "idle" /\ doc_i = 1 /\ batch = <<>> /\ batch_size = 0
    /\ total_success = 0 /\ total_failed = 0
    /\ bulk_calls = <<>> /\ bulk_totals = <<>> /\ index_ops = <<>> /\ bexc = "none"

IdleRetry ==
    /\ func = "func" /\ retries = 0 /\ delay = 0 /\ plan = <<>>
    /\ rpc = "idle" /\ attempt = 0 /\ caught = NoError /\ result = "unset"
    /\ wexc = NoError /\ calls = 0 /\ sleeps = 0 /\ slept = 0 /\ outcomes = <<>>
    /\ db_type = "mysql" /\ params = 0 /\ execute_many = FALSE
    /\ eq_batch_size = 1 /\ has_description = FALSE
    /\ qpc = "idle" /\ chunk_i = 0 /\ chunks = <<>> /\ rows = "None"
    /\ sink_err = NoError /\ sink_log = <<>>

NoFailure == [kind |-> "none", units |-> {}]

IdleFanout ==
    /\ handler = "export_all" /\ items = <<>> /\ max_workers = 1
    /\ fpc = "idle" /\ next_item = 1 /\ unit = <<>> /\ yielded = <<>>
    /\ error_log = <<>> /\ fexc = NoFailure /\ undone_at_raise = {}
    /\ submitted = <<>>

IdleEncoder == epc = "idle" /\ given = 0 /\ once = 0 /\ twice = 0

IdleCalls == closure = 0 /\ frames = <<>> /\ started = 0

IdleSingleton ==
    /\ instance = 0 /\ lock = 0 /\ initialized = "unset" /\ fields = 0 /\ es = 0
    /\ tpc = <<>> /\ args = <<>> /\ ret = <<>> /\ allocs = 0 /\ clients = 0
    /\ entered = <<>> /\ lockers = <<>>

\* ============================================================ batch_upload
MiB == 1024 * 1024
SizeStep == MiB \div 4

\* A document either serializes to doc.size >= 1 bytes or json.dumps raises.
Docs ==
    {[ser |-> TRUE, size |-> k * SizeStep] : k \in 1..MaxSizeSteps}
        \cup {[ser |-> FALSE, size |-> 0]}

max_size_bytes == max_size_mb * 1024 * 1024

\* len(json.dumps(doc).encode('utf-8'))
doc_size(k) == documents[k].size

Oversized_NeverRejects(s) == FALSE
Oversized(s) == s > max_size_bytes

Fits_IgnoresRunningTotal(s) == s <= max_size_bytes
Fits_Strict(s) == batch_size + s < max_size_bytes
Fits_Never(s) == FALSE
Fits(s) == batch_size + s <= max_size_bytes

\* try: helpers.bulk(...) finally: ... has no except clause: an exception of
\* helpers.bulk leaves batch_upload once the finally clause has run
AfterBulkError_Swallowed == "loop"
AfterBulkError == "raised"

\* the finally clause of the mid-loop flush
BatchAfterFlush_Empty(k) == <<>>
BatchAfterFlush(k) == <<k>>

SizeAfterFlush_Zero(s) == 0
SizeAfterFlush(s) == s

RejectedCount == 1

InitBatch ==
    /\ IdleCalls
    /\ IdleSingleton
    /\ IdleEncoder
    /\ IdleRetry
    /\ IdleFanout
    /\ is_dict \in BOOLEAN
    /\ documents \in UNION {[1..n -> Docs] : n \in 0..(IF is_dict THEN MaxDocs ELSE 0)}
    /\ max_size_mb \in 0..MaxSizeMb
    /\ recreate_index \in BOOLEAN
    /\ index_exists \in BOOLEAN
    /\ bpc = "call"
    /\ doc_i = 1
    /\ batch = <<>>
    /\ batch_size = 0
    /\ total_success = 0
    /\ total_failed = 0
    /\ bulk_calls = <<>>
    /\ bulk_totals = <<>>
    /\ index_ops = <<>>
    /\ bexc = "none"

\* self.create_index(index); any exception is logged and re-raised
CreateIndex ==
    /\ bpc = "call"
    /\ recreate_index
    /\ \/ /\ index_ops' = (IF index_exists THEN <<"delete">> ELSE <<>>) \o <<"create">>
          /\ bpc' = "validate"
          /\ bexc' = bexc
       \/ /\ index_ops' \in {<<>>} \cup (IF index_exists THEN {<<"delete">>} ELSE {})
          /\ bpc' = "raised"
          /\ bexc' = "IndexError"
    /\ UNCHANGED <<varsNotBatch, documents, is_dict, max_size_mb, recreate_index, index_exists,
                   doc_i, batch, batch_size, total_success, total_failed,
                   bulk_calls, bulk_totals>>

SkipCreateIndex ==
    /\ bpc = "call"
    /\ ~recreate_index
    /\ bpc' = "validate"
    /\ UNCHANGED <<varsNotBatch, documents, is_dict, max_size_mb, recreate_index, index_exists,
                   doc_i, batch, batch_size, total_success, total_failed,
                   bulk_calls, bulk_totals, index_ops, bexc>>

\* if not isinstance(documents, dict): raise ValueError
Validate ==
    /\ bpc = "validate"
    /\ IF is_dict
         THEN bpc' = "loop" /\ bexc' = bexc
         ELSE bpc' = "raised" /\ bexc' = "ValueError"
    /\ UNCHANGED <<varsNotBatch, documents, is_dict, max_size_mb, recreate_index, index_exists,
                   doc_i, batch, batch_size, total_success, total_failed,
                   bulk_calls, bulk_totals, index_ops>>

InLoop == bpc = "loop" /\ doc_i <= Len(documents)

\* json.dumps(doc) raises: the exception leaves batch_upload
SerializeFails ==
    /\ InLoop
    /\ ~documents[doc_i].ser
    /\ bpc' = "raised"
    /\ bexc' = "TypeError"
    /\ UNCHANGED <<varsNotBatch, documents, is_dict, max_size_mb, recreate_index, index_exists,
                   doc_i, batch, batch_size, total_success, total_failed,
                   bulk_calls, bulk_totals, index_ops>>

\* doc_size > max_size_bytes: log, total_failed += 1, continue
Reject ==
    /\ InLoop
    /\ documents[doc_i].ser
    /\ Oversized(doc_size(doc_i))
    /\ total_failed' = total_failed + RejectedCount
    /\ doc_i' = doc_i + 1
    /\ UNCHANGED <<varsNotBatch, documents, is_dict, max_size_mb, recreate_index, index_exists,
                   bpc, batch, batch_size, total_success,
                   bulk_calls, bulk_totals, index_ops, bexc>>

\* batch_size + doc_size <= max_size_bytes: append
AppendDoc ==
    /\ InLoop
    /\ documents[doc_i].ser
    /\ ~Oversized(doc_size(doc_i))
    /\ Fits(doc_size(doc_i))
    /\ batch' = Append(batch, doc_i)
    /\ batch_size' = batch_size + doc_size(doc_i)
    /\ doc_i' = doc_i + 1
    /\ UNCHANGED <<varsNotBatch, documents, is_dict, max_size_mb, recreate_index, index_exists,
                   bpc, total_success, total_failed,
                   bulk_calls, bulk_totals, index_ops, bexc>>

\* else: helpers.bulk(self.es, batch, ...) then, in the finally clause,
\* batch = [this document], batch_size = doc_size
Flush ==
    /\ InLoop
    /\ documents[doc_i].ser
    /\ ~Oversized(doc_size(doc_i))
    /\ ~Fits(doc_size(doc_i))
    /\ bulk_calls' = Append(bulk_calls, batch)
    /\ bulk_totals' = Append(bulk_totals, batch_size)
    /\ batch' = BatchAfterFlush(doc_i)
    /\ batch_size' = SizeAfterFlush(doc_size(doc_i))
    /\ \/ \E success \in 0..Len(batch) :
            /\ total_success' = total_success + success
            /\ total_failed' = total_failed + (Len(batch) - success)
            /\ doc_i' = doc_i + 1
            /\ UNCHANGED <<bpc, bexc>>
       \/ /\ bpc' = AfterBulkError
          /\ bexc' = "BulkError"
          /\ UNCHANGED <<doc_i, total_success, total_failed>>
    /\ UNCHANGED <<varsNotBatch, documents, is_dict, max_size_mb, recreate_index, index_exists,
                   index_ops>>

\* after the loop: if batch: helpers.bulk(self.es, batch, ...)
FinalFlush ==
    /\ bpc = "loop"
    /\ doc_i > Len(documents)
    /\ batch # <<>>
    /\ bulk_calls' = Append(bulk_calls, batch)
    /\ bulk_totals' = Append(bulk_totals, batch_size)
    /\ \/ \E success \in 0..Len(batch) :
            /\ total_success' = total_success + success
            /\ total_failed' = total_failed + (Len(batch) - success)
            /\ bpc' = "done"
            /\ bexc' = bexc
       \/ /\ bpc' = AfterBulkError
          /\ bexc' = "BulkError"
          /\ UNCHANGED <<total_success, total_failed>>
    /\ UNCHANGED <<varsNotBatch, documents, is_dict, max_size_mb, recreate_index, index_exists,
                   doc_i, batch, batch_size, index_ops>>

NoFinalFlush ==
    /\ bpc = "loop"
    /\ doc_i > Len(documents)
    /\ batch = <<>>
    /\ bpc' = "done"
    /\ UNCHANGED <<varsNotBatch, documents, is_dict, max_size_mb, recreate_index, index_exists,
                   doc_i, batch, batch_size, total_success, total_failed,
                   bulk_calls, bulk_totals, index_ops, bexc>>

NextBatch ==
    \/ CreateIndex
    \/ SkipCreateIndex
    \/ Validate
    \/ SerializeFails
    \/ Reject
    \/ AppendDoc
    \/ Flush
    \/ FinalFlush
    \/ NoFinalFlush

SpecBatch == InitBatch /\ [][NextBatch]_vars

\* ------------------------------------------------- batch_upload: properties
\* the byte sizes of the documents of a batch, summed
BatchBytes(b) == SumSeq([k \in DOMAIN b |-> documents[b[k]].size])

\* document k is serializable and not larger than the cap
Admissible(k) == documents[k].ser /\ documents[k].size <= max_size_bytes

\* the ids of the admissible documents among the first n, in input order
AdmissibleIds(n) == SelectSeq([k \in 1..n |-> k], Admissible)

\* C1: the running byte total never exceeds max_size_bytes, and every batch
\* handed to helpers.bulk sums to at most max_size_bytes.
C1_BatchWithinCap ==
    /\ batch_size <= max_size_bytes
    /\ BatchBytes(batch) <= max_size_bytes
    /\ \A k \in DOMAIN bulk_calls :
         /\ BatchBytes(bulk_calls[k]) <= max_size_bytes
         /\ bulk_totals[k] <= max_size_bytes

\* a call that ended after two bulk writes, the first one exactly at the cap
C1_Witness ==
    /\ bpc = "done"
    /\ max_size_bytes > 0
    /\ Len(bulk_calls) = 2
    /\ BatchBytes(bulk_calls[1]) = max_size_bytes
    /\ Len(bulk_calls[1]) = 2

\* C2: when the call completes (no bulk write raised), every document not
\* larger than the cap was handed to helpers.bulk in exactly one batch, and
\* the batches taken in call order list these documents in input order.
C2_ExactlyOnceInOrder ==
    bpc = "done" =>
        /\ Flatten(bulk_calls) = AdmissibleIds(Len(documents))
        /\ \A k \in 1..Len(documents) :
             Admissible(k) =>
                Cardinality({c \in DOMAIN bulk_calls : k \in Range(bulk_calls[c])}) = 1

\* three documents, the second one rejected, the other two in two batches
C2_Witness ==
    /\ bpc = "done"
    /\ Len(documents) = 3
    /\ ~Admissible(2)
    /\ bulk_calls = << <<1>>, <<3>> >>

\* C3: a document larger than the cap is never in a batch; the step that
\* meets it adds exactly one failure, leaves the running batch, its byte
\* total and the sink alone, and goes on with the next document.
OversizedNext ==
    /\ bpc = "loop"
    /\ doc_i <= Len(documents)
    /\ documents[doc_i].ser
    /\ documents[doc_i].size > max_size_bytes

C3_OversizedRejected ==
    /\ [](\A k \in Range(batch) \cup Range(Flatten(bulk_calls)) :
             documents[k].size <= max_size_bytes)
    /\ [][OversizedNext =>
            /\ total_failed' = total_failed + 1
            /\ total_success' = total_success
            /\ batch' = batch
            /\ batch_size' = batch_size
            /\ bulk_calls' = bulk_calls
            /\ doc_i' = doc_i + 1
            /\ bpc' = "loop"
            /\ bexc' = "none"]_vars

\* an oversized document between two documents that were both written
C3_Witness ==
    /\ bpc = "done"
    /\ Len(documents) = 3
    /\ documents[2].ser
    /\ documents[2].size > max_size_bytes
    /\ Flatten(bulk_calls) = <<1, 3>>
    /\ total_failed >= 1

\* C4: for a document s <= cap, the step flushes iff batch_size + s > cap:
\* the batch handed to helpers.bulk is the running batch as it was, and the
\* new running batch is that document alone with batch_size = s; otherwise
\* the document is appended and batch_size grows by s. No other step of the
\* loop writes to the sink.
AdmissibleNext ==
    /\ bpc = "loop"
    /\ doc_i <= Len(documents)
    /\ Admissible(doc_i)

C4_FlushExactlyOnOverflow ==
    [][/\ (AdmissibleNext /\ batch_size + documents[doc_i].size > max_size_bytes) =>
            /\ bulk_calls' = Append(bulk_calls, batch)
            /\ batch' = <<doc_i>>
            /\ batch_size' = documents[doc_i].size
       /\ (AdmissibleNext /\ batch_size + documents[doc_i].size <= max_size_bytes) =>
            /\ bulk_calls' = bulk_calls
            /\ batch' = Append(batch, doc_i)
            /\ batch_size' = batch_size + documents[doc_i].size
       /\ (bpc = "loop" /\ doc_i <= Len(documents) /\ bulk_calls' # bulk_calls) =>
            /\ AdmissibleNext
            /\ batch_size + documents[doc_i].size > max_size_bytes
      ]_vars

\* the shape of cap 100, sizes [30, 40, 50]: the first two documents fit
\* together, the third overflows; batches [d1, d2] then [d3], no rejection
C4_Witness ==
    /\ bpc = "done"
    /\ Len(documents) = 3
    /\ documents[1].size < documents[2].size
    /\ documents[2].size < documents[3].size
    /\ bulk_calls = << <<1, 2>>, <<3>> >>
    /\ bulk_totals = << documents[1].size + documents[2].size, documents[3].size >>
    /\ total_failed = 0

\* C5: at completion the byte totals of the batches handed to helpers.bulk
\* sum to the sizes of the documents that were not rejected.
C5_BytesConserved ==
    bpc = "done" =>
        SumSeq(bulk_totals)
            = SumSeq([k \in 1..Len(documents) |->
                        IF Admissible(k) THEN documents[k].size ELSE 0])

\* a completed call with a rejected document and two batches
C5_Witness ==
    /\ bpc = "done"
    /\ Len(bulk_totals) = 2
    /\ \E k \in 1..Len(documents) : ~Admissible(k)
    /\ SumSeq(bulk_totals) > max_size_bytes

\* C24: when helpers.bulk raises, at a mid-loop flush or at the final one, the
\* exception leaves batch_upload, no bulk call follows, and no document from
\* the one that triggered the flush onwards is ever given to the sink.
C24_BulkErrorPropagates ==
    /\ [](bexc = "BulkError" =>
            /\ bpc = "raised"
            /\ \A k \in doc_i..Len(documents) : k \notin Range(Flatten(bulk_calls)))
    /\ [][bexc = "BulkError" => bulk_calls' = bulk_calls]_vars

\* the second bulk call raised at a mid-loop flush, with the triggering
\* document and the batch rebuilt by the finally clause left unsent
C24_Witness ==
    /\ bpc = "raised"
    /\ bexc = "BulkError"
    /\ Len(bulk_calls) = 2
    /\ doc_i <= Len(documents)
    /\ batch = <<doc_i>>

\* C25: with a documents argument that is not a dict, batch_upload raises
\* ValueError having performed no sink operation: no index deletion or
\* creation and no bulk write, whatever recreate_index is.
C25_InvalidInputTouchesNothing ==
    bexc = "ValueError" => index_ops = <<>> /\ bulk_calls = <<>>

\* C27: at normal completion total_success + total_failed is the number of
\* input documents (each bulk call reporting every document of its batch as
\* one success or one failure), and neither counter ever decreases.
C27_CountersAccumulate ==
    /\ [](bpc = "done" => total_success + total_failed = Len(documents))
    /\ [][total_success' >= total_success /\ total_failed' >= total_failed]_vars

\* a call of two bulk writes and one rejection, with successes and failures
C27_Witness ==
    /\ bpc = "done"
    /\ Len(bulk_calls) = 2
    /\ \E k \in 1..Len(documents) : documents[k].ser /\ ~Admissible(k)
    /\ total_success > 0
    /\ total_failed > 1

\* C28: no bulk call is made with an empty batch; the call ends with a final
\* flush of the running batch iff that batch is not empty, and an input with
\* no admissible document causes no bulk call at all.
C28_NoEmptyBulk ==
    /\ \A i \in DOMAIN bulk_calls : bulk_calls[i] # <<>>
    /\ bpc = "done" =>
          IF batch # <<>>
            THEN bulk_calls # <<>> /\ bulk_calls[Len(bulk_calls)] = batch
            ELSE bulk_calls = <<>>
    /\ AdmissibleIds(Len(documents)) = <<>> => bulk_calls = <<>>

\* a call whose documents were all oversized: done, and no bulk call
C28_Witness ==
    /\ bpc = "done"
    /\ Len(documents) >= 2
    /\ total_failed = Len(documents)
    /\ bulk_calls = <<>>


\* ================================================== retry_on_lock_error
\* def retry_on_lock_error(retries=3, delay=2)
DefaultRetries == 3
DefaultDelay == 2

\* what a decorated function other than execute_query may raise
FuncErrors ==
    {MySQLError(e) : e \in {"ER_LOCK_WAIT_TIMEOUT", "ER_LOCK_DEADLOCK", "ER_DUP_ENTRY"}}
        \cup {OtherError}

\* what it may return
FuncValues == {"v1", "v2"}

\* how one invocation of it may end
FuncOutcomes == FuncErrors \cup {Returned(v) : v \in FuncValues}

\* what the connection may raise from cursor(), execute(), executemany(),
\* fetchall() and close(): mysql.connector errors on MySQL, pyodbc's on SQL Server
SinkErrors ==
    IF db_type = "mysql" THEN FuncErrors ELSE {OtherError}

\* what rollback() may raise: the connection is gone
RollbackErrors ==
    IF db_type = "mysql" THEN {MySQLError("CR_SERVER_LOST")} ELSE {OtherError}

\* except mysql.connector.Error as error
IsMySQLError(e) == e.cls = "mysql.connector.Error"

\* error.errno in {errorcode.ER_LOCK_WAIT_TIMEOUT, errorcode.ER_LOCK_DEADLOCK}
IsLockError_TimeoutOnly(e) == e.errno = "ER_LOCK_WAIT_TIMEOUT"
IsLockError_AnyErrno(e) == TRUE
IsLockError(e) == e.errno \in {"ER_LOCK_WAIT_TIMEOUT", "ER_LOCK_DEADLOCK"}

\* time.sleep(delay)
SleepSeconds_Backoff == delay * (attempt + 1)
SleepSeconds == delay

\* if attempt < retries - 1
MayRetry_OffByOne == attempt < retries
MayRetry == attempt < retries - 1

InitRetry ==
    /\ IdleCalls
    /\ IdleSingleton
    /\ IdleEncoder
    /\ IdleBatch
    /\ IdleFanout
    /\ \/ /\ func = "func"
          /\ retries \in 0..MaxRetries
          /\ delay \in 0..MaxDelay
          /\ plan \in [1..retries -> FuncOutcomes]
          /\ db_type = "mysql" /\ params = 0 /\ execute_many = FALSE
          /\ eq_batch_size = 1 /\ has_description = FALSE
       \/ /\ func = "execute_query"
          /\ retries = DefaultRetries
          /\ delay = DefaultDelay
          /\ plan = <<>>
          /\ db_type \in {"mysql", "sql_server"}
          /\ params \in 0..MaxParams
          /\ execute_many \in BOOLEAN
          /\ eq_batch_size \in 0..MaxBatchSize
          /\ has_description \in BOOLEAN
    /\ rpc = "loop" /\ attempt = 0 /\ caught = NoError /\ result = "unset"
    /\ wexc = NoError /\ calls = 0 /\ sleeps = 0 /\ slept = 0 /\ outcomes = <<>>
    /\ qpc = "idle" /\ chunk_i = 0 /\ chunks = <<>> /\ rows = "None"
    /\ sink_err = NoError /\ sink_log = <<>>

\* for attempt in range(retries): try: return func(*args, **kwargs)
Invoke ==
    /\ rpc = "loop"
    /\ attempt < retries
    /\ rpc' = "try"
    /\ calls' = calls + 1
    /\ IF func = "execute_query"
         THEN /\ qpc' = "cursor"
              /\ rows' = "None"
              /\ chunk_i' = 0
              /\ chunks' = <<>>
              /\ sink_err' = NoError
              /\ sink_log' = Append(sink_log, "call")
         ELSE UNCHANGED <<qpc, rows, chunk_i, chunks, sink_err, sink_log>>
    /\ UNCHANGED <<varsNotRetry, func, retries, delay, plan, attempt, caught, result, wexc,
                   sleeps, slept, outcomes,
                   db_type, params, execute_many, eq_batch_size, has_description>>

\* the loop ran out without a return or a raise: return None
LoopEnds ==
    /\ rpc = "loop"
    /\ attempt >= retries
    /\ rpc' = "returned"
    /\ result' = "None"
    /\ UNCHANGED <<varsNotRetry, func, retries, delay, plan, attempt, caught, wexc, calls,
                   sleeps, slept, outcomes, varsQuery>>

FuncReturns ==
    /\ rpc = "try"
    /\ func = "func"
    /\ plan[calls].cls = "return"
    /\ result' = plan[calls].msg
    /\ outcomes' = Append(outcomes, plan[calls])
    /\ rpc' = "returned"
    /\ UNCHANGED <<varsNotRetry, func, retries, delay, plan, attempt, caught, wexc, calls,
                   sleeps, slept, varsQuery>>

FuncRaises ==
    /\ rpc = "try"
    /\ func = "func"
    /\ plan[calls].cls # "return"
    /\ caught' = plan[calls]
    /\ outcomes' = Append(outcomes, plan[calls])
    /\ rpc' = "except"
    /\ UNCHANGED <<varsNotRetry, func, retries, delay, plan, attempt, result, wexc, calls,
                   sleeps, slept, varsQuery>>

\* a lock error with attempts left: time.sleep(delay), next iteration
SleepAndRetry ==
    /\ rpc = "except"
    /\ IsMySQLError(caught)
    /\ IsLockError(caught)
    /\ MayRetry
    /\ sleeps' = sleeps + 1
    /\ slept' = slept + SleepSeconds
    /\ attempt' = attempt + 1
    /\ rpc' = "loop"
    /\ UNCHANGED <<varsNotRetry, func, retries, delay, plan, caught, result, wexc, calls,
                   outcomes, varsQuery>>

\* a lock error on the last attempt
RaiseLockError ==
    /\ rpc = "except"
    /\ IsMySQLError(caught)
    /\ IsLockError(caught)
    /\ ~MayRetry
    /\ wexc' = DatabaseError("Lock error after retries")
    /\ rpc' = "raised"
    /\ UNCHANGED <<varsNotRetry, func, retries, delay, plan, attempt, caught, result, calls,
                   sleeps, slept, outcomes, varsQuery>>

\* any other MySQL error
RaiseMySQLError ==
    /\ rpc = "except"
    /\ IsMySQLError(caught)
    /\ ~IsLockError(caught)
    /\ wexc' = DatabaseError("MySQL error")
    /\ rpc' = "raised"
    /\ UNCHANGED <<varsNotRetry, func, retries, delay, plan, attempt, caught, result, calls,
                   sleeps, slept, outcomes, varsQuery>>

\* except Exception as e
RaiseDatabaseError ==
    /\ rpc = "except"
    /\ ~IsMySQLError(caught)
    /\ wexc' = DatabaseError("Database error")
    /\ rpc' = "raised"
    /\ UNCHANGED <<varsNotRetry, func, retries, delay, plan, attempt, caught, result, calls,
                   sleeps, slept, outcomes, varsQuery>>

\* ============================================== SQLHelper.execute_query
InQuery == rpc = "try" /\ func = "execute_query"

Min(a, b) == IF a <= b THEN a ELSE b

\* an exception inside the try block: control goes to the except clause
Fail(call, e) ==
    /\ qpc' = "except"
    /\ sink_err' = e
    /\ sink_log' = sink_log \o call \o <<"fail">>

\* with self.get_cursor() as cursor: get_connection().cursor()
GetCursor ==
    /\ InQuery
    /\ qpc = "cursor"
    /\ \/ /\ qpc' = IF db_type = "mysql" THEN "use" ELSE "stmt"
          /\ UNCHANGED <<sink_err, sink_log>>
       \/ \E e \in SinkErrors : Fail(<<>>, e)
    /\ UNCHANGED <<varsNotRetry, varsWrapper, db_type, params, execute_many, eq_batch_size,
                   has_description, chunk_i, chunks, rows>>

\* if self.db_type == self.DB_MYSQL: cursor.execute('USE ...')
UseDatabase ==
    /\ InQuery
    /\ qpc = "use"
    /\ \/ /\ qpc' = "stmt"
          /\ UNCHANGED <<sink_err, sink_log>>
       \/ \E e \in SinkErrors : Fail(<<>>, e)
    /\ UNCHANGED <<varsNotRetry, varsWrapper, db_type, params, execute_many, eq_batch_size,
                   has_description, chunk_i, chunks, rows>>

\* a slice hands over the whole list whatever i is
batch_data_Whole(i) == <<0, params>>

\* batch_data = params[i:i + batch_size]: the rows i .. min(i + batch_size,
\* len(params)) - 1, written <<first index, index after the last>>
batch_data(i) == <<i, Min(i + eq_batch_size, params)>>

\* for i in range(0, len(params), batch_size):
\*     cursor.executemany(query, params[i:i + batch_size])
ExecuteMany ==
    /\ InQuery
    /\ qpc = "stmt"
    /\ params > 0
    /\ execute_many
    /\ \/ /\ eq_batch_size = 0          \* range() arg 3 must not be zero
          /\ Fail(<<>>, OtherError)
          /\ UNCHANGED <<chunk_i, chunks>>
       \/ /\ eq_batch_size > 0
          /\ chunk_i < params
          /\ chunks' = Append(chunks, batch_data(chunk_i))
          /\ \/ /\ chunk_i' = chunk_i + eq_batch_size
                /\ sink_log' = Append(sink_log, "executemany")
                /\ UNCHANGED <<qpc, sink_err>>
             \/ /\ \E e \in SinkErrors : Fail(<<"executemany">>, e)
                /\ UNCHANGED chunk_i
       \/ /\ eq_batch_size > 0
          /\ chunk_i >= params
          /\ qpc' = "desc"
          /\ UNCHANGED <<chunk_i, chunks, sink_err, sink_log>>
    /\ UNCHANGED <<varsNotRetry, varsWrapper, db_type, params, execute_many, eq_batch_size,
                   has_description, rows>>

\* cursor.execute(query, params) / cursor.execute(query)
Execute ==
    /\ InQuery
    /\ qpc = "stmt"
    /\ ~(params > 0 /\ execute_many)
    /\ \/ /\ qpc' = "desc"
          /\ sink_log' = Append(sink_log, "execute")
          /\ UNCHANGED sink_err
       \/ \E e \in SinkErrors : Fail(<<"execute">>, e)
    /\ UNCHANGED <<varsNotRetry, varsWrapper, db_type, params, execute_many, eq_batch_size,
                   has_description, chunk_i, chunks, rows>>

\* if cursor.description: rows = cursor.fetchall()
Fetch ==
    /\ InQuery
    /\ qpc = "desc"
    /\ \/ /\ has_description
          /\ rows' = "rows"
          /\ qpc' = "close"
          /\ sink_log' = Append(sink_log, "fetchall")
          /\ UNCHANGED sink_err
       \/ /\ has_description
          /\ \E e \in SinkErrors : Fail(<<"fetchall">>, e)
          /\ UNCHANGED rows
       \/ /\ ~has_description
          /\ qpc' = "close"
          /\ UNCHANGED <<rows, sink_err, sink_log>>
    /\ UNCHANGED <<varsNotRetry, varsWrapper, db_type, params, execute_many, eq_batch_size,
                   has_description, chunk_i, chunks>>

\* get_cursor's finally: cursor.close(); then return rows
CloseAndReturn ==
    /\ InQuery
    /\ qpc = "close"
    /\ \/ /\ qpc' = "idle"
          /\ rpc' = "returned"
          /\ result' = rows
          /\ outcomes' = Append(outcomes, Returned(rows))
          /\ UNCHANGED <<sink_err, sink_log>>
       \/ /\ \E e \in SinkErrors : Fail(<<>>, e)
          /\ UNCHANGED <<rpc, result, outcomes>>
    /\ UNCHANGED <<varsNotRetry, func, retries, delay, plan, attempt, caught, wexc, calls, sleeps, slept,
                   db_type, params, execute_many, eq_batch_size,
                   has_description, chunk_i, chunks, rows>>

\* the except clause without its first statement
ExceptClause_NoRollback ==
    /\ InQuery
    /\ qpc = "except"
    /\ caught' = DatabaseError("Query execution failed")
    /\ outcomes' = Append(outcomes, caught')
    /\ qpc' = "idle"
    /\ rpc' = "except"
    /\ UNCHANGED <<varsNotRetry, func, retries, delay, plan, attempt, result, wexc, calls, sleeps, slept,
                   db_type, params, execute_many, eq_batch_size,
                   has_description, chunk_i, chunks, rows, sink_err, sink_log>>

\* except Exception as e: self.get_connection().rollback(); log;
\* raise DatabaseError(f"Query execution failed: {e}")
ExceptClause ==
    /\ InQuery
    /\ qpc = "except"
    /\ sink_log' = Append(sink_log, "rollback")
    /\ \/ caught' = DatabaseError("Query execution failed")
       \/ \E e \in RollbackErrors : caught' = e
    /\ outcomes' = Append(outcomes, caught')
    /\ qpc' = "idle"
    /\ rpc' = "except"
    /\ UNCHANGED <<varsNotRetry, func, retries, delay, plan, attempt, result, wexc, calls, sleeps, slept,
                   db_type, params, execute_many, eq_batch_size,
                   has_description, chunk_i, chunks, rows, sink_err>>

NextRetry ==
    \/ Invoke
    \/ LoopEnds
    \/ FuncReturns
    \/ FuncRaises
    \/ SleepAndRetry
    \/ RaiseLockError
    \/ RaiseMySQLError
    \/ RaiseDatabaseError
    \/ GetCursor
    \/ UseDatabase
    \/ ExecuteMany
    \/ Execute
    \/ Fetch
    \/ CloseAndReturn
    \/ ExceptClause

SpecRetry == InitRetry /\ [][NextRetry]_vars

\* the same call when every invocation of func, every call of the connection
\* and every time.sleep returns or raises: the one thread of the call always
\* takes its next step
SpecRetryFair == SpecRetry /\ WF_vars(NextRetry)

\* ------------------------------------------ retry_on_lock_error: properties
\* how an invocation ended, read off the exception it raised
Succeeded(o) == o.cls = "return"
Transient(o) ==
    /\ o.cls = "mysql.connector.Error"
    /\ o.errno \in {"ER_LOCK_WAIT_TIMEOUT", "ER_LOCK_DEADLOCK"}
Permanent(o) == ~Succeeded(o) /\ ~Transient(o)

\* C6: if func fails with a lock error on its first k < R invocations and
\* succeeds on invocation k+1, wrapper returns that invocation's result,
\* raises nothing, and has slept exactly k times (k * delay seconds).
C6_SuccessAfterTransient ==
    \A k \in 0..(retries - 1) :
        (/\ func = "func"
         /\ rpc \in {"returned", "raised"}
         /\ \A j \in 1..k : Transient(plan[j])
         /\ Succeeded(plan[k + 1]))
        =>
            /\ rpc = "returned"
            /\ result = plan[k + 1].msg
            /\ wexc = NoError
            /\ calls = k + 1
            /\ sleeps = k
            /\ slept = k * delay

\* R = 3, D = 2: lock errors on attempts 1 and 2, success on attempt 3
C6_Witness ==
    /\ retries = 3
    /\ delay = 2
    /\ rpc = "returned"
    /\ Len(outcomes) = 3
    /\ outcomes[1] = MySQLError("ER_LOCK_WAIT_TIMEOUT")
    /\ outcomes[2] = MySQLError("ER_LOCK_DEADLOCK")
    /\ Succeeded(outcomes[3])
    /\ sleeps = 2
    /\ slept = 4

\* C7: a failure that is not a MySQL lock-wait-timeout or deadlock ends the
\* call on the attempt it occurs: no invocation and no sleep follow it, and
\* wrapper raises DatabaseError.
C7_PermanentIsImmediate ==
    \A j \in DOMAIN outcomes :
        Permanent(outcomes[j]) =>
            /\ j = Len(outcomes)
            /\ calls = j
            /\ sleeps = j - 1
            /\ rpc \in {"except", "raised"}
            /\ rpc = "raised" => wexc.cls = "DatabaseError"

\* a permanent error on the second of three attempts
C7_Witness ==
    /\ func = "func"
    /\ retries = 3
    /\ rpc = "raised"
    /\ Len(outcomes) = 2
    /\ Transient(outcomes[1])
    /\ outcomes[2] = MySQLError("ER_DUP_ENTRY")
    /\ wexc.cls = "DatabaseError"

\* C8: with R >= 1 the operation is invoked at most R times and wrapper
\* sleeps at most R-1 times; when all R attempts fail with a lock error the
\* call ends in DatabaseError after exactly R invocations and R-1 sleeps.
C8_BoundedAttempts ==
    retries >= 1 =>
        /\ calls <= retries
        /\ sleeps <= retries - 1
        /\ (/\ func = "func"
            /\ rpc \in {"returned", "raised"}
            /\ \A j \in 1..retries : Transient(plan[j]))
           =>
              /\ rpc = "raised"
              /\ wexc = DatabaseError("Lock error after retries")
              /\ calls = retries
              /\ sleeps = retries - 1
        /\ (/\ Len(outcomes) = retries
            /\ \A j \in DOMAIN outcomes : Transient(outcomes[j]))
           =>
              /\ calls = retries
              /\ sleeps = retries - 1
              /\ rpc \in {"except", "raised"}

\* three lock errors in a row with R = 3
C8_Witness ==
    /\ retries = 3
    /\ rpc = "raised"
    /\ Len(outcomes) = 3
    /\ \A j \in 1..3 : Transient(outcomes[j])
    /\ sleeps = 2
    /\ calls = 3

\* C9: a lock error of execute_query's statement reaches the caller only
\* when all R attempts were used (before that the statement is re-executed).
C9_TransientInvisibleUnlessExhausted ==
    (/\ func = "execute_query"
     /\ rpc = "raised"
     /\ Transient(sink_err)
     /\ caught = DatabaseError("Query execution failed")   \* rollback() went through
     /\ \E j \in 1..(Len(sink_log) - 1) :
           /\ sink_log[j] \in {"execute", "executemany"}
           /\ sink_log[j + 1] = "fail")
    => calls = retries

\* C10: in execute_query a failure of the statement is followed by
\* rollback() on the connection before the error leaves execute_query, so
\* before it reaches the caller and before any further attempt starts.
C10_RollbackBeforeSurfacing ==
    \A j \in DOMAIN sink_log :
        sink_log[j] = "fail" =>
            IF j = Len(sink_log)
              THEN rpc = "try" /\ qpc = "except"
              ELSE sink_log[j + 1] = "rollback"

\* the caller got the error of a fetch that failed after the statement ran
C10_Witness ==
    /\ func = "execute_query"
    /\ rpc = "raised"
    /\ sink_err # NoError
    /\ sink_log = <<"call", "execute", "fetchall", "fail", "rollback">>

\* the rows of the chunks given to executemany so far, concatenated
ChunkRows == Flatten([k \in DOMAIN chunks |->
                 [j \in 1..(chunks[k][2] - chunks[k][1]) |-> chunks[k][1] + j - 1]])

\* ceil(a / b) for b > 0
Ceil(a, b) == (a + b - 1) \div b

\* the loop over the chunks ran to its end: every executemany returned
AllChunksSent ==
    /\ func = "execute_query"
    /\ execute_many
    /\ params > 0
    /\ eq_batch_size > 0
    /\ chunk_i >= params

\* C31: execute_query with execute_many and non-empty params (batch_size
\* at least 1) hands params to executemany in consecutive chunks, in order:
\* the chunks given so far concatenate to a prefix of params with no row
\* twice, every chunk has 1..batch_size rows and every chunk but the last
\* one given has exactly batch_size; once every executemany returned, the
\* concatenation is exactly params and there were ceil(len(params) /
\* batch_size) calls.
C31_ConsecutiveChunks ==
    (func = "execute_query" /\ eq_batch_size > 0) =>
        /\ ChunkRows = [j \in 1..Len(ChunkRows) |-> j - 1]
        /\ Len(ChunkRows) <= params
        /\ \A k \in DOMAIN chunks :
              /\ chunks[k][2] - chunks[k][1] \in 1..eq_batch_size
              /\ k < Len(chunks) => chunks[k][2] - chunks[k][1] = eq_batch_size
        /\ AllChunksSent =>
              /\ Len(ChunkRows) = params
              /\ Len(chunks) = Ceil(params, eq_batch_size)
              /\ Len(SelectSeq(sink_log, LAMBDA x : x = "executemany")) = Len(chunks)

\* three rows went out as a chunk of two and a last chunk of one
C31_Witness ==
    /\ AllChunksSent
    /\ params = 3
    /\ eq_batch_size = 2
    /\ chunks = <<<<0, 2>>, <<2, 3>>>>
    /\ rpc = "returned"

\* the call of wrapper is over
Terminal == rpc \in {"returned", "raised"}

\* how a call that is over ended: a return hands on the result of the last
\* invocation, which succeeded; a raise is a DatabaseError
TerminalOutcome ==
    /\ rpc = "returned" =>
          /\ calls >= 1
          /\ Len(outcomes) = calls
          /\ Succeeded(outcomes[calls])
          /\ result = outcomes[calls].msg
          /\ wexc = NoError
    /\ rpc = "raised" =>
          /\ wexc.cls = "DatabaseError"
          /\ result = "unset"
          /\ \A j \in 1..Len(outcomes) : ~Succeeded(outcomes[j])

\* C33: with R >= 1 and invocations that all terminate, every call of
\* wrapper reaches a terminal outcome, and a terminal outcome is either the
\* return of the result of a successful invocation or a raised
\* DatabaseError: wrapper never returns without a successful invocation.
C33_TerminatesWithOutcome ==
    /\ [](retries >= 1 => TerminalOutcome)
    /\ (retries >= 1) ~> Terminal

\* R = 2: both invocations ended in a lock error, one sleep between them,
\* and the call ended with DatabaseError
C33_Witness ==
    /\ func = "func"
    /\ retries = 2
    /\ rpc = "raised"
    /\ calls = 2
    /\ \A j \in 1..2 : Transient(outcomes[j])
    /\ sleeps = 1
    /\ wexc = DatabaseError("Lock error after retries")

\* ========================= FileHandler.export_all / S3Handler.upload_all_to_s3
\* what an item of the input list is
\*   "ok"    a payload whose write succeeds
\*   "fail"  a payload whose write raises (disk, network)
\*   "empty" a falsy payload that is not None: {}, [], 0, False, ''
\*   "none"  None
\*   "unser" a payload CustomEncoder cannot serialize (json.dumps raises)
ItemKinds == {"ok", "fail", "empty", "none", "unser"}

\* the pool sizes MAX_WORKERS (core/constants.py) may have
PoolSizes == 1..MaxWorkers

\* export_all: if target_object;  upload_all_to_s3: if file_content is not None
Dispatched_Always(h, kind) == TRUE
Dispatched(h, kind) ==
    IF h = "export_all" THEN kind \notin {"none", "empty"} ELSE kind # "none"

\* upload_all_to_s3 calls prepare_json while building the futures list;
\* export_all serializes inside the unit (export_to_json)
SerializedOnSubmit(h) == h = "upload_all_to_s3"

\* how the unit of an item ends: export_to_json / upload_file
UnitResult(h, kind) ==
    IF kind = "fail" \/ (kind = "unser" /\ ~SerializedOnSubmit(h)) THEN "err" ELSE "ok"

\* ThreadPoolExecutor(max_workers=MAX_WORKERS): a worker thread is free
WorkerFree_Unbounded == TRUE
WorkerFree == Cardinality({i \in DOMAIN unit : unit[i] = "running"}) < max_workers

\* the except clause of the result loop: export_all re-raises, upload_all_to_s3 only logs
RaisesOnFailure_Never(h) == FALSE
RaisesOnFailure_Always(h) == TRUE
RaisesOnFailure(h) == h = "export_all"

\* leaving the with block is executor.shutdown(wait=True): queued units still
\* run, and the call waits for every unit
ShutdownCancelsQueued_Yes == TRUE
ShutdownCancelsQueued == FALSE

ShutdownWaits_No == FALSE
ShutdownWaits == TRUE

Undone == {i \in DOMAIN unit : unit[i] \in {"queued", "running"}}

InitFanout ==
    /\ IdleCalls
    /\ IdleSingleton
    /\ IdleEncoder
    /\ IdleBatch
    /\ IdleRetry
    /\ handler \in {"export_all", "upload_all_to_s3"}
    /\ max_workers \in PoolSizes
    /\ items \in UNION {[1..n -> ItemKinds] : n \in 0..MaxUnits}
    /\ unit = [i \in DOMAIN items |-> "none"]
    /\ fpc = "submit"
    /\ next_item = 1
    /\ yielded = <<>>
    /\ error_log = <<>>
    /\ fexc = NoFailure
    /\ undone_at_raise = {}
    /\ submitted = <<>>

\* the submitting loop: one item of targeted_files / s3_files
SubmitItem ==
    /\ fpc = "submit"
    /\ next_item <= Len(items)
    /\ \/ /\ ~Dispatched(handler, items[next_item])        \* skipped
          /\ next_item' = next_item + 1
          /\ UNCHANGED <<unit, fpc, fexc, undone_at_raise, submitted>>
       \/ /\ Dispatched(handler, items[next_item])
          /\ SerializedOnSubmit(handler)
          /\ items[next_item] = "unser"                     \* prepare_json raises
          /\ fpc' = "raising"
          /\ fexc' = [kind |-> "prepare_json", units |-> {next_item}]
          /\ undone_at_raise' = Undone
          /\ UNCHANGED <<unit, next_item, submitted>>
       \/ /\ Dispatched(handler, items[next_item])
          /\ ~(SerializedOnSubmit(handler) /\ items[next_item] = "unser")
          /\ unit' = [unit EXCEPT ![next_item] = "queued"]  \* executor.submit
          /\ submitted' = Append(submitted, next_item)
          /\ next_item' = next_item + 1
          /\ UNCHANGED <<fpc, fexc, undone_at_raise>>
    /\ UNCHANGED <<varsNotFanout, handler, max_workers, items, yielded, error_log>>

\* the submitting loop is over: for future in as_completed(futures)
SubmitDone ==
    /\ fpc = "submit"
    /\ next_item > Len(items)
    /\ fpc' = "collect"
    /\ UNCHANGED <<varsNotFanout, handler, max_workers, items, unit, next_item,
                   yielded, error_log, fexc, undone_at_raise, submitted>>

\* a worker thread takes the oldest queued unit
StartUnit ==
    /\ fpc \in {"submit", "collect", "raising", "exiting"}
    /\ WorkerFree
    /\ \E i \in DOMAIN unit :
         /\ unit[i] = "queued"
         /\ \A j \in 1..(i - 1) : unit[j] # "queued"
         /\ unit' = [unit EXCEPT ![i] = "running"]
    /\ UNCHANGED <<varsNotFanout, handler, max_workers, items, fpc, next_item,
                   yielded, error_log, fexc, undone_at_raise, submitted>>

\* export_to_json / upload_file returns or raises in its worker thread
FinishUnit ==
    /\ \E i \in DOMAIN unit :
         /\ unit[i] = "running"
         /\ unit' = [unit EXCEPT ![i] = UnitResult(handler, items[i])]
    /\ UNCHANGED <<varsNotFanout, handler, max_workers, items, fpc, next_item,
                   yielded, error_log, fexc, undone_at_raise, submitted>>

\* as_completed yields a finished future; future.result() in the try block
CollectResult ==
    /\ fpc = "collect"
    /\ \E i \in DOMAIN unit :
         /\ unit[i] \in {"ok", "err"}
         /\ i \notin Range(yielded)
         /\ yielded' = Append(yielded, i)
         /\ IF unit[i] = "err"
              THEN /\ error_log' = Append(error_log, i)
                   /\ IF RaisesOnFailure(handler)
                        THEN /\ fpc' = "raising"
                             /\ fexc' = [kind |-> "unit", units |-> {i}]
                             /\ undone_at_raise' = Undone
                        ELSE UNCHANGED <<fpc, fexc, undone_at_raise>>
              ELSE UNCHANGED <<error_log, fpc, fexc, undone_at_raise>>
    /\ UNCHANGED <<varsNotFanout, handler, max_workers, items, unit, next_item, submitted>>

\* as_completed is exhausted: the with block ends normally
CollectDone ==
    /\ fpc = "collect"
    /\ \A i \in DOMAIN unit : unit[i] # "none" => i \in Range(yielded)
    /\ fpc' = "exiting"
    /\ UNCHANGED <<varsNotFanout, handler, max_workers, items, unit, next_item,
                   yielded, error_log, fexc, undone_at_raise, submitted>>

\* ThreadPoolExecutor.__exit__: shutdown(wait=True), then the call returns
\* or the exception goes on to the caller
ExitPool ==
    /\ fpc \in {"raising", "exiting"}
    /\ IF ShutdownCancelsQueued
         THEN unit' = [i \in DOMAIN unit |->
                         IF unit[i] = "queued" THEN "cancelled" ELSE unit[i]]
         ELSE unit' = unit
    /\ ShutdownWaits => \A i \in DOMAIN unit : unit'[i] \notin {"queued", "running"}
    /\ fpc' = IF fpc = "raising" THEN "raised" ELSE "returned"
    /\ UNCHANGED <<varsNotFanout, handler, max_workers, items, next_item,
                   yielded, error_log, fexc, undone_at_raise, submitted>>

NextFanout ==
    \/ SubmitItem
    \/ SubmitDone
    \/ StartUnit
    \/ FinishUnit
    \/ CollectResult
    \/ CollectDone
    \/ ExitPool

SpecFanout == InitFanout /\ [][NextFanout]_vars

\* ------------------------------------------------------ fan-out properties
FanoutOver == fpc \in {"returned", "raised"}

DispatchedUnits == {i \in DOMAIN unit : unit[i] # "none"}

\* F: the units whose write fails, fixed by the input alone
FailingUnits ==
    {i \in DOMAIN items :
        \/ items[i] = "fail"
        \/ items[i] = "unser" /\ handler = "export_all"}

FailedUnits == {i \in DOMAIN unit : unit[i] = "err"}

UnitsDone == \A i \in DOMAIN unit : unit[i] \in {"none", "ok", "err"}

NoDuplicates(s) == \A i, j \in DOMAIN s : s[i] = s[j] => i = j

\* C11: when a fan-out call is over, every dispatched unit has run to
\* completion, exactly the dispatched units of the failing set F ended with
\* an error and the others with success, for every pool size and completion
\* order; unless serialization stopped the submitting loop itself, every item
\* that qualifies for dispatch was dispatched, whatever the other units did.
C11_UnitsIndependent ==
    FanoutOver =>
        /\ \A i \in DispatchedUnits :
              unit[i] = IF i \in FailingUnits THEN "err" ELSE "ok"
        /\ fexc.kind # "prepare_json" =>
              \A i \in DOMAIN items :
                 (items[i] # "none" /\ (handler = "export_all" => items[i] # "empty"))
                    => i \in DispatchedUnits

\* a call that raised on a failed unit while a later unit had not started,
\* and that unit succeeded all the same
C11_Witness ==
    /\ fpc = "raised"
    /\ fexc.kind = "unit"
    /\ \E i \in undone_at_raise : unit[i] = "ok"
    /\ \E i \in undone_at_raise : unit[i] = "err"
    /\ max_workers = 1

\* C12: at every instant the number of units executing is at most MAX_WORKERS.
C12_BoundedConcurrency ==
    Cardinality({i \in DOMAIN unit : unit[i] = "running"}) <= max_workers

\* the pool is full and a further unit is waiting in the queue
C12_Witness ==
    /\ Cardinality({i \in DOMAIN unit : unit[i] = "running"}) = max_workers
    /\ \E i \in DOMAIN unit : unit[i] = "queued"

\* C13: control is back with the caller, normally or by raising, only when
\* every dispatched unit has completed with success or with an error.
C13_Synchronous == FanoutOver => UnitsDone

\* the call raised while units were still queued or running
C13_Witness ==
    /\ fpc = "raised"
    /\ undone_at_raise # {}
    /\ UnitsDone

C15_CollectAndLog ==
    (handler = "upload_all_to_s3" /\ \A i \in DOMAIN items : items[i] # "unser") =>
        /\ fpc \notin {"raising", "raised"}
        /\ fpc = "returned" =>
              /\ Range(error_log) = FailedUnits
              /\ NoDuplicates(error_log)
              /\ FailedUnits = FailingUnits

\* a call that returned with two failed uploads and one good one
C15_Witness ==
    /\ handler = "upload_all_to_s3"
    /\ fpc = "returned"
    /\ Len(error_log) = 2
    /\ \E i \in DOMAIN unit : unit[i] = "ok"

HasData(i) ==
    IF handler = "export_all" THEN items[i] \in {"ok", "fail", "unser"}
    ELSE items[i] \in {"ok", "fail", "unser", "empty"}

C30_RaisesIffUnitFailed ==
    (handler = "export_all" /\ FanoutOver) =>
        /\ FailedUnits = {} => fpc = "returned" /\ fexc = NoFailure
        /\ FailedUnits # {} =>
              /\ fpc = "raised"
              /\ \E i \in FailedUnits :
                    /\ fexc = [kind |-> "unit", units |-> {i}]
                    /\ \E n \in DOMAIN yielded :
                          /\ yielded[n] = i
                          /\ \A m \in 1..(n - 1) : unit[yielded[m]] = "ok"

\* export_all raised the error of a unit that completed after a successful one
C30_Witness ==
    /\ handler = "export_all"
    /\ fpc = "raised"
    /\ Len(yielded) = 2
    /\ unit[yielded[1]] = "ok"
    /\ fexc.units = {yielded[2]}

\* C16: a payload that fails to serialize does not keep its siblings from
\* being written: when upload_all_to_s3 is over, every item whose own write
\* would succeed has been written; when batch_upload ends on a document that
\* json.dumps rejects, every admissible document has been given to helpers.bulk.
C16_SiblingsStillWritten ==
    /\ (handler = "upload_all_to_s3" /\ FanoutOver) =>
          \A i \in DOMAIN items : items[i] = "ok" => unit[i] = "ok"
    /\ (bpc = "raised" /\ bexc = "TypeError") =>
          Flatten(bulk_calls) = AdmissibleIds(Len(documents))

\* ============================================ CustomEncoder.convert_to_dict
\* a Python value is [t |-> its type, n |-> a scalar's content,
\*                     k |-> a dict's keys in insertion order,
\*                     c |-> a list's elements or a dict's values, in order]
\*   a bool holds 0 (False) or 1 (True), a float twice its value (1.0 is 2,
\*   1.5 is 3), a str the number of its text: 0 is '', 1 is 'x', 2 is
\*   '2024-01-01T00:00:00'; the i-th key of a generated dict is key number i
Scalar(type, content) == [t |-> type, n |-> content, k |-> <<>>, c |-> <<>>]
Null == Scalar("null", 0)
Bool(b) == Scalar("bool", b)
IntV(i) == Scalar("int", i)
Float(halves) == Scalar("float", halves)
Str(s) == Scalar("str", s)
Datetime(d) == Scalar("datetime", d)
List(xs) == [t |-> "list", n |-> 0, k |-> <<>>, c |-> xs]
Dict(keys, vals) == [t |-> "dict", n |-> 0, k |-> keys, c |-> vals]
\* an object of a class with __annotations__: the declared names and their values
Annotated(keys, vals) == [t |-> "annotated", n |-> 0, k |-> keys, c |-> vals]
\* an object of any other class (a set, a Decimal, an instance without annotations)
Object == Scalar("object", 0)

\* datetime.isoformat()
isoformat(d) == Str(2)
\* float.is_integer() and int(obj)
is_integer(x) == x.n % 2 = 0
int(x) == IntV(x.n \div 2)

\* the scalars the inputs are built from: None, False, 0, 1.0, 1.5, '', 'x',
\* a datetime, an object of another class
Scalars == {Null, Bool(0), IntV(0), Float(2), Float(3), Str(0), Str(1), Datetime(0), Object}

\* the values of one node: a scalar or an empty container
Leaves == Scalars \cup {List(<<>>), Dict(<<>>, <<>>), Annotated(<<>>, <<>>)}

\* the number of nodes of a value
RECURSIVE Size(_)
Size(x) == 1 + SumSeq([i \in DOMAIN x.c |-> Size(x.c[i])])

\* x with one more last member
WithMember(x, leaf) ==
    [x EXCEPT !.c = Append(@, leaf),
              !.k = IF x.t \in {"dict", "annotated"} THEN Append(@, Len(@) + 1) ELSE @]

\* the values that are x with one leaf more, as the last member of x or of
\* the last member of x, and so on down: every value is built this way
RECURSIVE Grow(_)
Grow(x) ==
    IF x.t \notin {"list", "dict", "annotated"} THEN {}
    ELSE {WithMember(x, leaf) : leaf \in Leaves}
         \cup (IF x.c = <<>> THEN {}
               ELSE {[x EXCEPT !.c[Len(x.c)] = g] : g \in Grow(x.c[Len(x.c)])})

\* item not in [None, {}, [], '']  (the item as given, before it is converted)
Pruned_Falsy(item) ==
    \/ item.t = "null"
    \/ item.t = "str" /\ item.n = 0
    \/ item.t \in {"list", "dict"} /\ item.c = <<>>
    \/ item.t \in {"int", "float", "bool"} /\ item.n = 0
Pruned(item) ==
    \/ item.t = "null"
    \/ item.t = "str" /\ item.n = 0
    \/ item.t \in {"list", "dict"} /\ item.c = <<>>

\* the positions of a list, dict or annotated object that its comprehension keeps
KeptAt(obj) == SelectSeq([i \in DOMAIN obj.c |-> i], LAMBDA i : ~Pruned(obj.c[i]))

convert_basic_types(obj) ==
    IF obj.t = "datetime" THEN isoformat(obj.n)
    ELSE IF obj.t = "float"
           THEN IF is_integer(obj) THEN int(obj) ELSE obj
           ELSE obj

RECURSIVE convert_to_dict(_), convert_list(_), convert_dict(_), convert_annotated(_)
convert_list(obj) ==
    LET kept == KeptAt(obj)
    IN  List([i \in DOMAIN kept |-> convert_to_dict(obj.c[kept[i]])])

convert_dict(obj) ==
    LET kept == KeptAt(obj)
    IN  Dict([i \in DOMAIN kept |-> obj.k[kept[i]]],
             [i \in DOMAIN kept |-> convert_to_dict(obj.c[kept[i]])])

convert_annotated(obj) ==
    LET kept == KeptAt(obj)
    IN  Dict([i \in DOMAIN kept |-> obj.k[kept[i]]],
             [i \in DOMAIN kept |-> convert_to_dict(obj.c[kept[i]])])

convert_to_dict(obj) ==
    IF obj.t = "null" THEN Null
    ELSE IF obj.t \in {"int", "str", "bool", "datetime"} THEN convert_basic_types(obj)
    ELSE IF obj.t = "list" THEN convert_list(obj)
    ELSE IF obj.t = "dict" THEN convert_dict(obj)
    ELSE IF obj.t = "annotated" THEN convert_annotated(obj)
    ELSE obj

InitEncoder ==
    /\ IdleCalls
    /\ IdleSingleton
    /\ IdleBatch
    /\ IdleRetry
    /\ IdleFanout
    /\ epc = "input"
    /\ given \in Leaves
    /\ once = Null
    /\ twice = Null

\* the caller builds the value it will pass, one member at a time
Build ==
    /\ epc = "input"
    /\ Size(given) < MaxNodes
    /\ given' \in Grow(given)
    /\ UNCHANGED <<varsNotEncoder, epc, once, twice>>

\* convert_to_dict(given)
Convert ==
    /\ epc = "input"
    /\ once' = convert_to_dict(given)
    /\ epc' = "converted"
    /\ UNCHANGED <<varsNotEncoder, given, twice>>

\* convert_to_dict applied to its own result
Reconvert ==
    /\ epc = "converted"
    /\ twice' = convert_to_dict(once)
    /\ epc' = "reconverted"
    /\ UNCHANGED <<varsNotEncoder, given, once>>

NextEncoder ==
    \/ Build
    \/ Convert
    \/ Reconvert

SpecEncoder == InitEncoder /\ [][NextEncoder]_vars

\* ----------------------------------------------------- encoder properties
\* built from null, booleans, integers, strings, lists and dicts only
RECURSIVE PlainValue(_)
PlainValue(x) ==
    /\ x.t \in {"null", "bool", "int", "str", "list", "dict"}
    /\ \A i \in DOMAIN x.c : PlainValue(x.c[i])

Empties == {Null, Str(0), List(<<>>), Dict(<<>>, <<>>)}

\* no list element and no dict value, at any depth, is null or empty
RECURSIVE NoEmptyMember(_)
NoEmptyMember(x) ==
    \A i \in DOMAIN x.c : x.c[i] \notin Empties /\ NoEmptyMember(x.c[i])

\* no float, at any depth, has an integral value
RECURSIVE NoIntegralFloat(_)
NoIntegralFloat(x) ==
    /\ x.t = "float" => x.n % 2 # 0
    /\ \A i \in DOMAIN x.c : NoIntegralFloat(x.c[i])

\* the value holds, at some depth, an object of no recognized kind
RECURSIVE HasUnsupported(_)
HasUnsupported(x) ==
    \/ x.t \notin {"null", "bool", "int", "float", "str", "datetime", "list", "dict", "annotated"}
    \/ \E i \in DOMAIN x.c : HasUnsupported(x.c[i])

\* C21: given a value that holds, at the top level or nested, an object of no
\* recognized kind, convert_to_dict does not return a value: it raises.
C21_UnsupportedRaises ==
    HasUnsupported(given) => epc \notin {"converted", "reconverted"}

\* C17: on values built from null, booleans, integers, strings, lists and
\* dicts, converting the converted value again changes nothing.
C17_Idempotent ==
    (epc = "reconverted" /\ PlainValue(given)) => twice = once

\* C18: the converted value has, at every nesting level, no list element and
\* no dict value that is null, an empty string, an empty list or an empty dict.
C18_NoEmptyMembers ==
    epc \in {"converted", "reconverted"} => NoEmptyMember(once)

\* C19: the converted value holds no float of integral value, at the top
\* level or nested: each was re-typed to an integer.
C19_IntegralFloatsRetyped ==
    epc \in {"converted", "reconverted"} => NoIntegralFloat(once)

ZeroOrFalse(x) == x \in {IntV(0), Bool(0)}

\* the members of x that are not null or empty, by position
Survivors(x) == {i \in DOMAIN x.c : x.c[i] \notin Empties}

Rank(x, i) == Cardinality({j \in Survivors(x) : j <= i})

\* y is x converted: every member that is not null or empty is present, in
\* order and under its key, nothing else is, a 0 or False member is present
\* unchanged, and the same holds inside every member
RECURSIVE OnlyEmptiesDropped(_, _)
OnlyEmptiesDropped(x, y) ==
    IF x.t \in {"list", "dict"}
      THEN /\ y.t = x.t
           /\ Len(y.c) = Cardinality(Survivors(x))
           /\ Len(y.k) = IF x.t = "dict" THEN Len(y.c) ELSE 0
           /\ \A i \in Survivors(x) :
                 /\ x.t = "dict" => y.k[Rank(x, i)] = x.k[i]
                 /\ ZeroOrFalse(x.c[i]) => y.c[Rank(x, i)] = x.c[i]
                 /\ OnlyEmptiesDropped(x.c[i], y.c[Rank(x, i)])
      ELSE TRUE

\* C20: converting never drops a 0 or a False: every list element and dict
\* value that is not null, '', [] or {} is in the output at its position or
\* under its key, a 0 or False unchanged, and nothing but null, '', [] and {}
\* is dropped, at every nesting level.
C20_ZeroAndFalseKept ==
    epc \in {"converted", "reconverted"} => OnlyEmptiesDropped(given, once)

\* [0, None, False] became [0, False]
C20_Witness ==
    /\ epc = "converted"
    /\ given = List(<<IntV(0), Null, Bool(0)>>)
    /\ once = List(<<IntV(0), Bool(0)>>)

\* ======================================== OpensearchHandler.__new__ / __init__
\* the threads that each evaluate OpensearchHandler(host, index, role_arn, ...)
Threads == 1..MaxThreads

\* the argument tuples (host, index, role_arn, region) a call may pass
ArgTuples == 1..MaxThreads

\* if not cls._instance
NoInstance == instance = 0

\* with cls._lock: the lock can be taken
LockFree_Always == TRUE
LockFree == lock = 0

InitSingleton ==
    /\ IdleCalls
    /\ IdleEncoder
    /\ IdleBatch
    /\ IdleRetry
    /\ IdleFanout
    /\ tpc = [t \in Threads |-> "new_check"]
    /\ args \in [Threads -> ArgTuples]
    /\ instance = 0
    /\ allocs = 0
    /\ lock = 0
    /\ initialized = "unset"
    /\ fields = 0
    /\ es = 0
    /\ clients = 0
    /\ ret = [t \in Threads |-> 0]
    /\ entered = <<>>
    /\ lockers = <<>>

\* __new__: the first, unlocked test of cls._instance
NewCheck ==
    \E t \in Threads :
        /\ tpc[t] = "new_check"
        /\ tpc' = [tpc EXCEPT ![t] = IF NoInstance THEN "new_lock" ELSE "new_return"]
        /\ UNCHANGED <<varsNotSingleton, args, instance, allocs, lock, initialized,
                       fields, es, clients, ret, entered, lockers>>

\* __new__: with cls._lock (acquire)
AcquireLock ==
    \E t \in Threads :
        /\ tpc[t] = "new_lock"
        /\ LockFree
        /\ lock' = t
        /\ lockers' = Append(lockers, t)
        /\ tpc' = [tpc EXCEPT ![t] = "new_recheck"]
        /\ UNCHANGED <<varsNotSingleton, args, instance, allocs, initialized,
                       fields, es, clients, ret, entered>>

\* __new__: the second test, under the lock; when it fails the with block ends
NewRecheck ==
    \E t \in Threads :
        /\ tpc[t] = "new_recheck"
        /\ IF NoInstance
             THEN /\ tpc' = [tpc EXCEPT ![t] = "new_alloc"]
                  /\ UNCHANGED lock
             ELSE /\ tpc' = [tpc EXCEPT ![t] = "new_return"]
                  /\ lock' = 0
        /\ UNCHANGED <<varsNotSingleton, args, instance, allocs, initialized,
                       fields, es, clients, ret, entered, lockers>>

\* __new__: cls._instance = super().__new__(cls)
Allocate ==
    \E t \in Threads :
        /\ tpc[t] = "new_alloc"
        /\ allocs' = allocs + 1
        /\ instance' = allocs + 1
        /\ initialized' = "unset"
        /\ tpc' = [tpc EXCEPT ![t] = "new_flag"]
        /\ UNCHANGED <<varsNotSingleton, args, lock, fields, es, clients, ret, entered, lockers>>

\* __new__: cls._instance._initialized = False, and the with block ends
ClearFlag ==
    \E t \in Threads :
        /\ tpc[t] = "new_flag"
        /\ initialized' = "false"
        /\ lock' = 0
        /\ tpc' = [tpc EXCEPT ![t] = "new_return"]
        /\ UNCHANGED <<varsNotSingleton, args, instance, allocs, fields, es, clients,
                       ret, entered, lockers>>

\* __new__: return cls._instance; type.__call__ then calls __init__ on it
NewReturn ==
    \E t \in Threads :
        /\ tpc[t] = "new_return"
        /\ ret' = [ret EXCEPT ![t] = instance]
        /\ tpc' = [tpc EXCEPT ![t] = "init_check"]
        /\ UNCHANGED <<varsNotSingleton, args, instance, allocs, lock, initialized,
                       fields, es, clients, entered, lockers>>

\* __init__ without the test of _initialized: the body runs at every construction
InitCheck_Unguarded ==
    \E t \in Threads :
        /\ tpc[t] = "init_check"
        /\ tpc' = [tpc EXCEPT ![t] = "init_fields"]
        /\ entered' = Append(entered, t)
        /\ UNCHANGED <<varsNotSingleton, args, instance, allocs, lock, initialized,
                       fields, es, clients, ret, lockers>>

\* __init__: if self._initialized: return
\* (the attribute does not exist between Allocate and ClearFlag: AttributeError)
InitCheck ==
    \E t \in Threads :
        /\ tpc[t] = "init_check"
        /\ \/ /\ initialized = "true"
              /\ tpc' = [tpc EXCEPT ![t] = "returned"]
              /\ UNCHANGED entered
           \/ /\ initialized = "unset"
              /\ tpc' = [tpc EXCEPT ![t] = "raised"]
              /\ UNCHANGED entered
           \/ /\ initialized = "false"
              /\ tpc' = [tpc EXCEPT ![t] = "init_fields"]
              /\ entered' = Append(entered, t)
        /\ UNCHANGED <<varsNotSingleton, args, instance, allocs, lock, initialized,
                       fields, es, clients, ret, lockers>>

\* __init__: self.host, self.index, self.role_arn, self.region = the arguments
SetFields ==
    \E t \in Threads :
        /\ tpc[t] = "init_fields"
        /\ fields' = args[t]
        /\ tpc' = [tpc EXCEPT ![t] = "init_sts"]
        /\ UNCHANGED <<varsNotSingleton, args, instance, allocs, lock, initialized,
                       es, clients, ret, entered, lockers>>

\* __init__: boto3.client('sts').assume_role(...) returns credentials
AssumeRole ==
    \E t \in Threads :
        /\ tpc[t] = "init_sts"
        /\ tpc' = [tpc EXCEPT ![t] = "init_client"]
        /\ UNCHANGED <<varsNotSingleton, args, instance, allocs, lock, initialized,
                       fields, es, clients, ret, entered, lockers>>

\* __init__: assume_role raises (no credentials, access denied, no network)
AssumeRoleFails ==
    \E t \in Threads :
        /\ tpc[t] = "init_sts"
        /\ tpc' = [tpc EXCEPT ![t] = "raised"]
        /\ UNCHANGED <<varsNotSingleton, args, instance, allocs, lock, initialized,
                       fields, es, clients, ret, entered, lockers>>

\* __init__: self.es = OpenSearch(...)
CreateClient ==
    \E t \in Threads :
        /\ tpc[t] = "init_client"
        /\ clients' = clients + 1
        /\ es' = clients + 1
        /\ tpc' = [tpc EXCEPT ![t] = "init_flag"]
        /\ UNCHANGED <<varsNotSingleton, args, instance, allocs, lock, initialized,
                       fields, ret, entered, lockers>>

\* __init__: self._initialized = True
MarkInitialized ==
    \E t \in Threads :
        /\ tpc[t] = "init_flag"
        /\ initialized' = "true"
        /\ tpc' = [tpc EXCEPT ![t] = "returned"]
        /\ UNCHANGED <<varsNotSingleton, args, instance, allocs, lock,
                       fields, es, clients, ret, entered, lockers>>


NextSingleton ==
    \/ NewCheck
    \/ AcquireLock
    \/ NewRecheck
    \/ Allocate
    \/ ClearFlag
    \/ NewReturn
    \/ InitCheck
    \/ SetFields
    \/ AssumeRole
    \/ AssumeRoleFails
    \/ CreateClient
    \/ MarkInitialized

SpecSingleton == InitSingleton /\ [][NextSingleton]_vars

\* --------------------------------------------------- singleton properties
\* C22: the initialization body of __init__ (assume_role, the OpenSearch
\* client, _initialized = True) is executed at most once, whatever the
\* interleaving of the constructing threads: at most one client is created.
C22_InitializedOnce == clients <= 1

\* C23: at most one instance object is ever allocated, two threads are never
\* both inside the locked block, and every __new__ that has returned
\* returned that one instance.
C23_OneInstance ==
    /\ allocs <= 1
    /\ Cardinality({t \in Threads : tpc[t] \in {"new_recheck", "new_alloc", "new_flag"}}) <= 1
    /\ \A t \in Threads : ret[t] # 0 => ret[t] = 1 /\ instance = 1

\* two threads passed the unlocked test together, one allocated, the other
\* found the instance at the locked test, and both hold the same object
C23_Witness ==
    /\ allocs = 1
    /\ \A t \in Threads : ret[t] = 1
    /\ Cardinality({t \in Threads : t \in Range(lockers)}) >= 2

\* where a construction is before the body of __init__: in __new__, or at
\* the test of _initialized
BeforeInitBody == {"new_check", "new_lock", "new_recheck", "new_return", "init_check"}

\* thread t takes the step
Steps(t) == tpc'[t] # tpc[t]

\* a construction that has not reached the body of __init__ when the
\* instance is initialized goes to its return without touching the instance
LaterConstructionKeepsState ==
    \A t \in Threads :
        (initialized = "true" /\ tpc[t] \in BeforeInitBody /\ Steps(t)) =>
            /\ fields' = fields
            /\ es' = es
            /\ clients' = clients
            /\ initialized' = "true"
            /\ tpc'[t] \in BeforeInitBody \cup {"returned"}

\* an __init__ that raises leaves _initialized as it was, and a construction
\* that finds it false runs the body
FailedInitIsRepeated ==
    \A t \in Threads :
        /\ (tpc[t] = "init_sts" /\ tpc'[t] = "raised") => initialized' = initialized
        /\ (tpc[t] = "init_check" /\ initialized = "false" /\ Steps(t)) =>
              /\ tpc'[t] = "init_fields"
              /\ entered' = Append(entered, t)

\* _initialized is true only when some __init__ ran to its end
TrueOnlyWhenCompleted ==
    initialized = "true" => \E t \in Range(entered) : tpc[t] = "returned"

\* C32: once the instance is initialized, a later construction (one that has
\* not reached the body of __init__ by then), whatever its arguments, leaves
\* host, index, role_arn, region and the client unchanged and _initialized
\* true; an initialization that raises before its end leaves _initialized
\* false (it is true only when some __init__ completed), and the next
\* construction, finding it false, runs the initialization again.
C32_InitializedStateKept ==
    /\ []TrueOnlyWhenCompleted
    /\ [][LaterConstructionKeepsState /\ FailedInitIsRepeated]_vars

\* thread 1 initialized the instance; thread 2, with other arguments, went
\* through __new__ without the lock and returned from __init__ at the test:
\* the fields and the client are those of thread 1
C32_Witness ==
    /\ args[1] # args[2]
    /\ entered = <<1>>
    /\ lockers = <<1>>
    /\ tpc[1] = "returned" /\ tpc[2] = "returned"
    /\ initialized = "true"
    /\ fields = args[1]
    /\ es = 1 /\ clients = 1

\* the initialization of thread 1 raised, the construction of thread 2 ran
\* it again and completed it
C32_RepeatedWitness ==
    /\ entered = <<1, 2>>
    /\ tpc[1] = "raised" /\ tpc[2] = "returned"
    /\ initialized = "true"
    /\ fields = args[2]
    /\ clients = 1

\* ================================= retry_on_lock_error: calls of one wrapper
\* One decorated function, called again and again and from several threads.
\* retries and delay are cells of the decorator's closure; attempt is a local
\* of each call of wrapper.

\* for attempt in range(retries): the first value of attempt in a new call
FirstAttempt_Carried(previous) == previous
FirstAttempt(previous) == 0

\* a thread that is not inside wrapper
NoFrame == [pc |-> "out", attempt |-> 0, invoked |-> 0, slept |-> <<>>,
            nth |-> 0, ended |-> "never"]

InitCalls ==
    /\ IdleSingleton
    /\ IdleEncoder
    /\ IdleBatch
    /\ IdleRetry
    /\ IdleFanout
    /\ closure \in [retries : 0..MaxRetries, delay : 0..MaxDelay]
    /\ frames = [t \in Threads |-> NoFrame]
    /\ started = 0

\* wrapper(*args, **kwargs) is called: a new frame, a new range iterator
CallWrapper ==
    \E t \in Threads :
        /\ frames[t].pc = "out"
        /\ started < MaxCalls
        /\ started' = started + 1
        /\ frames' = [frames EXCEPT ![t] =
                         [pc |-> "loop", attempt |-> FirstAttempt(frames[t].attempt),
                          invoked |-> 0, slept |-> <<>>, nth |-> frames[t].nth + 1,
                          ended |-> frames[t].ended]]
        /\ UNCHANGED <<varsNotCalls, closure>>

\* for attempt in range(retries): try: func(*args, **kwargs)
FrameInvoke ==
    \E t \in Threads :
        /\ frames[t].pc = "loop"
        /\ frames[t].attempt < closure.retries
        /\ frames' = [frames EXCEPT ![t].pc = "try", ![t].invoked = @ + 1]
        /\ UNCHANGED <<varsNotCalls, closure, started>>

\* range(retries) is exhausted without a return or a raise: return None
FrameLoopEnds ==
    \E t \in Threads :
        /\ frames[t].pc = "loop"
        /\ frames[t].attempt >= closure.retries
        /\ frames' = [frames EXCEPT ![t].pc = "out", ![t].ended = "none"]
        /\ UNCHANGED <<varsNotCalls, closure, started>>

\* return func(*args, **kwargs)
FrameReturns ==
    \E t \in Threads :
        /\ frames[t].pc = "try"
        /\ frames' = [frames EXCEPT ![t].pc = "out", ![t].ended = "returned"]
        /\ UNCHANGED <<varsNotCalls, closure, started>>

\* func raises a lock error: sleep and go on, or raise after the last attempt
FrameLockError ==
    \E t \in Threads :
        /\ frames[t].pc = "try"
        /\ IF frames[t].attempt < closure.retries - 1
             THEN frames' = [frames EXCEPT ![t].pc = "loop",
                                           ![t].slept = Append(@, closure.delay),
                                           ![t].attempt = @ + 1]
             ELSE frames' = [frames EXCEPT ![t].pc = "out", ![t].ended = "exhausted"]
        /\ UNCHANGED <<varsNotCalls, closure, started>>

\* func raises anything else: raise DatabaseError
FrameOtherError ==
    \E t \in Threads :
        /\ frames[t].pc = "try"
        /\ frames' = [frames EXCEPT ![t].pc = "out", ![t].ended = "permanent"]
        /\ UNCHANGED <<varsNotCalls, closure, started>>

NextCalls ==
    \/ CallWrapper
    \/ FrameInvoke
    \/ FrameLoopEnds
    \/ FrameReturns
    \/ FrameLockError
    \/ FrameOtherError

SpecCalls == InitCalls /\ [][NextCalls]_vars

\* ------------------------------------------------ properties of the calls
\* C26: use does not change the policy: retries and delay never change, the
\* attempt counter of a call counts the invocations of that call only (so
\* each call starts at its first attempt, whatever earlier or concurrent
\* calls did), every sleep lasts delay, and a call gives up on lock errors
\* only after retries invocations of its own.
C26_PolicyNotMutated ==
    /\ [][closure' = closure]_vars
    /\ [](\A t \in Threads :
            /\ frames[t].pc = "loop" => frames[t].attempt = frames[t].invoked
            /\ frames[t].pc = "try" => frames[t].attempt = frames[t].invoked - 1
            /\ \A i \in DOMAIN frames[t].slept : frames[t].slept[i] = closure.delay
            /\ (frames[t].pc = "out" /\ frames[t].ended = "exhausted") =>
                  /\ frames[t].invoked = closure.retries
                  /\ Len(frames[t].slept) = closure.retries - 1)

\* a thread in the first invocation of its second call, after a first call
\* that used up its retries, while another thread is in a later attempt of
\* its own call
C26_Witness ==
    \E t, u \in Threads :
        /\ t # u
        /\ frames[t].nth = 2
        /\ frames[t].ended = "exhausted"
        /\ frames[t].pc = "try"
        /\ frames[t].attempt = 0
        /\ frames[u].pc = "try"
        /\ frames[u].attempt >= 1

====
